---- MODULE Spec2Model ----
(***************************************************************************)
(* Call-session orchestration of the AI phone receptionist (src/main.py):  *)
(* the in-memory call_sessions store and the three Twilio webhooks         *)
(* /answer, /process and /hangup, with the collaborators they call         *)
(* (src/utils.py, src/database.py, src/organizations.py).                  *)
(*                                                                         *)
(* A webhook handler is an asyncio coroutine: it runs without interruption *)
(* from one `await` to the next, so every action below is one such         *)
(* segment.  Strings whose content the code inspects (utterances, the      *)
(* extractor's items field) are sequences of one-character strings.        *)
(* The write-only log tables (calls, conversations) are not part of the    *)
(* state; only the success or failure of the calls that write them is.     *)
(***************************************************************************)
EXTENDS Integers, Sequences, FiniteSets, TLC

\* ------------------------------------------------------------------ bounds
\* Number of webhook deliveries in one behaviour, when they are handled one
\* at a time and when two may be in flight.
MaxEvents == 4
MaxConcurrentEvents == 4
\* Number of collaborator calls that fail (raise or time out) in one
\* behaviour, in the same two settings.
MaxFaults == 1
MaxConcurrentFaults == 0
\* The same two numbers when the webhooks of two calls are delivered.
MaxTwoCallEvents == 4
MaxTwoCallFaults == 1
\* The same two numbers when the webhooks of two calls are delivered and two
\* of them may be in flight.
MaxTwoCallConcurrentEvents == 3
MaxTwoCallConcurrentFaults == 0
\* Webhooks delivered for one call whose webhooks carry either of two From
\* numbers; no collaborator call fails.
MaxTwoPhoneEvents == 4
MaxTwoPhoneFaults == 0
\* Requests the business API accepts.
MaxAdminRequests == 4

\* -------------------------------------------------------------- constants
\* Extraction cadence: `len(session["conversation_history"]) >= 3`.
ExtractionThreshold == 3
\* `len(items_str.strip()) > 2`.
MinItemsLen == 2
CallIds == {"CA1", "CA2"}
Orgs == {1}
Phones == {"+15550001", "+15550002"}
\* The businesses table: ids of its rows and the organizations owning them.
BusinessIds == {1, 2, 3}
Organizations == {1, 2}
AdminSlots == {1, 2}
\* Coroutines that may be in flight at once (the concurrent specification
\* uses both slots, the one-at-a-time specification only one).
Slots == {1, 2}
\* A session dict is a heap object; a handler keeps its reference after the
\* store entry is deleted.  0 is "no object".
ObjIds == 1..(Cardinality(CallIds) + Cardinality(Slots))

\* ------------------------------------------------------------ str methods
Whitespace == {" "}

UpperToLower ==
    [c \in {"A", "B", "C", "D", "E", "F", "G", "H", "I", "J", "K", "L", "M",
            "N", "O", "P", "Q", "R", "S", "T", "U", "V", "W", "X", "Y", "Z"} |->
        CASE c = "A" -> "a" [] c = "B" -> "b" [] c = "C" -> "c" [] c = "D" -> "d"
          [] c = "E" -> "e" [] c = "F" -> "f" [] c = "G" -> "g" [] c = "H" -> "h"
          [] c = "I" -> "i" [] c = "J" -> "j" [] c = "K" -> "k" [] c = "L" -> "l"
          [] c = "M" -> "m" [] c = "N" -> "n" [] c = "O" -> "o" [] c = "P" -> "p"
          [] c = "Q" -> "q" [] c = "R" -> "r" [] c = "S" -> "s" [] c = "T" -> "t"
          [] c = "U" -> "u" [] c = "V" -> "v" [] c = "W" -> "w" [] c = "X" -> "x"
          [] c = "Y" -> "y" [] c = "Z" -> "z"]

\* str.lower()
Lower(s) ==
    [i \in 1..Len(s) |-> IF s[i] \in DOMAIN UpperToLower THEN UpperToLower[s[i]] ELSE s[i]]

RECURSIVE LStrip(_)
LStrip(s) ==
    IF s # <<>> /\ Head(s) \in Whitespace THEN LStrip(Tail(s)) ELSE s

RECURSIVE RStrip(_)
RStrip(s) ==
    IF s # <<>> /\ s[Len(s)] \in Whitespace THEN RStrip(SubSeq(s, 1, Len(s) - 1)) ELSE s

\* str.strip()
Strip(s) == RStrip(LStrip(s))

\* `sub in s`
Contains(s, sub) ==
    \E i \in 0..(Len(s) - Len(sub)) : SubSeq(s, i + 1, i + Len(sub)) = sub

\* ----------------------------------------------------------------- inputs
\* SpeechResult values the provider delivers: nothing, silence, a padded
\* capitalised "No" (a closing phrase) and an order keyword.
Utterances ==
    { <<>>,
      <<" ">>,
      <<" ", "N", "o">>,
      <<"g", "e", "t">> }

\* The JSON null of the extractor's reply (Python None).
None == <<"<None>">>

\* Values of the "items" field the extraction model may return.
LLMItems ==
    { None,
      <<"N", "u", "l", "l">>,
      <<"o", "k">>,
      <<"p", "i", "e">> }

\* Texts the responder may produce, and its fixed apology.
Reply == "reply"
Fallback == "I apologize, I'm having trouble processing that. Could you please repeat?"

\* ------------------------------------------------------------------ state
VARIABLES
    call_sessions,   \* main.call_sessions: CallSid -> session object (0: no key)
    heap,            \* the session dicts
    handlers,        \* the webhook coroutines in flight, one per slot
    orders,          \* rows of the orders table, in id order (call_sid and items)
    created_mails,   \* save_order_simple calls, per CallSid
    summary_mails,   \* conversation-summary mails (main.py:361), per CallSid
    audit,           \* per session object: what was handed to it and done for it
    clock,           \* deliveries so far; also datetime.now()
    conc,            \* how many coroutines the scheduler has in flight at most
    calls,           \* the CallSids the provider delivers webhooks for
    budget,          \* how many webhooks the provider delivers
    speeches,        \* the SpeechResults the provider delivers
    fault_budget,    \* how many collaborator calls may fail
    faults,          \* collaborator calls that have failed so far
    done,            \* what the coroutine that finished last did and returned
    phones,          \* the From numbers the provider's webhooks carry
    businesses,      \* rows of the businesses table, by id
    admin,           \* the business-API coroutines in flight, one per slot
    requests         \* business-API requests accepted so far

\* The state of the business API.
admin_vars == << businesses, admin, requests >>

vars == << call_sessions, heap, handlers, orders, created_mails, summary_mails,
           audit, clock, conc, calls, budget, speeches, fault_budget, faults, done,
           phones, admin_vars >>

\* ---------------------------------------------------------------- session
NoInfo == <<"<unset>">>

\* The dict get_call_session creates.  questions_asked, appointment_info and
\* is_emergency are never read or written by the webhooks, and order_info
\* (main.py:231) is written but never read: they are left out.  Keys that
\* are added later hold their "absent" value: organization_id 0,
\* start_time 0, order_saved FALSE, order_id 0; caller_phone "" is None.
NewSession ==
    [ conversation_history |-> <<>>,
      caller_phone         |-> "",
      organization_id      |-> 0,
      start_time           |-> 0,
      order_saved          |-> FALSE,
      order_id             |-> 0 ]

\* Bookkeeping per session dict: the non-blank SpeechResults handed to it,
\* the order rows inserted and order mails sent for it by turn coroutines
\* and by end coroutines, and the save_order calls of turn coroutines that
\* raised.
NewAudit ==
    [ submitted    |-> <<>>,
      turn_inserts |-> 0,
      end_inserts  |-> 0,
      turn_mails   |-> 0,
      end_mails    |-> 0,
      turn_save_failures |-> 0 ]

\* A coroutine's local variables, and what it did (the tallies at the end).
Idle ==
    [ kind            |-> "idle",
      pc              |-> "idle",
      call_sid        |-> "",
      speech          |-> <<>>,
      user_input      |-> <<>>,
      turn_number     |-> 0,
      session         |-> 0,
      organization_id |-> 0,
      ai_response     |-> "",
      responder_failed |-> FALSE,
      order_info      |-> NoInfo,
      duration        |-> -1,
      reply           |-> "",
      found           |-> FALSE,
      hist_len        |-> 0,
      was_saved       |-> FALSE,
      extracted       |-> 0,
      inserted        |-> 0,
      save_failed     |-> 0,
      notified        |-> 0,
      summarised      |-> 0,
      removed         |-> FALSE,
      last_session    |-> NewSession,
      last_audit      |-> NewAudit ]

Active(hs) == {s \in Slots : hs[s].kind # "idle"}

\* Objects the store or a running coroutine still references.
Live(cs, hs) == ({cs[c] : c \in CallIds} \cup {hs[s].session : s \in Slots}) \ {0}

\* Unreferenced dicts are garbage: give them one canonical value.
Sweep(f, blank, cs, hs) == [o \in ObjIds |-> IF o \in Live(cs, hs) THEN f[o] ELSE blank]

FreeObj(cs, hs) == CHOOSE o \in ObjIds \ Live(cs, hs) : \A p \in ObjIds \ Live(cs, hs) : o <= p

FreeSlot(hs) == CHOOSE s \in Slots \ Active(hs) : \A t \in Slots \ Active(hs) : s <= t

\* Variant: get_call_session with a fresh dict on every call.
get_call_session_always_new(cs, hp, hs, call_sid) ==
    LET o == FreeObj(cs, hs)
    IN  [ sessions |-> [cs EXCEPT ![call_sid] = o],
          heap     |-> [hp EXCEPT ![o] = NewSession],
          obj      |-> o ]

\* Variant: get_call_session handing a new CallSid a dict that another
\* CallSid already holds, when there is one.
get_call_session_shared(cs, hp, hs, call_sid) ==
    IF cs[call_sid] # 0
    THEN [ sessions |-> cs, heap |-> hp, obj |-> cs[call_sid] ]
    ELSE IF \E c \in CallIds : cs[c] # 0
    THEN LET o == cs[CHOOSE c \in CallIds : cs[c] # 0]
         IN  [ sessions |-> [cs EXCEPT ![call_sid] = o], heap |-> hp, obj |-> o ]
    ELSE LET o == FreeObj(cs, hs)
         IN  [ sessions |-> [cs EXCEPT ![call_sid] = o],
               heap     |-> [hp EXCEPT ![o] = NewSession],
               obj      |-> o ]

\* main.get_call_session: the store, the heap and the dict returned.
get_call_session(cs, hp, hs, call_sid) ==
    IF cs[call_sid] = 0
    THEN LET o == FreeObj(cs, hs)
         IN  [ sessions |-> [cs EXCEPT ![call_sid] = o],
               heap     |-> [hp EXCEPT ![o] = NewSession],
               obj      |-> o ]
    ELSE [ sessions |-> cs, heap |-> hp, obj |-> cs[call_sid] ]

\* The businesses table at startup: businesses 1 and 2 belong to
\* organization 1, business 3 to organization 2; business 1 is the active one.
InitialBusinesses ==
    [ b \in BusinessIds |->
        [ present         |-> TRUE,
          organization_id |-> IF b = 3 THEN 2 ELSE 1,
          is_active       |-> b = 1 ] ]

\* A free slot of the business API.
AdminIdle == [ kind |-> "idle", pc |-> "", business_id |-> 0, org_id |-> 0 ]

\* ------------------------------------------------------------------ Init
InitBase ==
    /\ call_sessions = [c \in CallIds |-> 0]
    /\ heap = [o \in ObjIds |-> NewSession]
    /\ handlers = [s \in Slots |-> Idle]
    /\ orders = <<>>
    /\ created_mails = [c \in CallIds |-> 0]
    /\ summary_mails = [c \in CallIds |-> 0]
    /\ audit = [o \in ObjIds |-> NewAudit]
    /\ clock = 0
    /\ faults = 0
    /\ done = Idle
    /\ businesses = InitialBusinesses
    /\ admin = [a \in AdminSlots |-> AdminIdle]
    /\ requests = 0

\* The webhooks of one call, delivered and handled one at a time.
Init ==
    /\ InitBase
    /\ conc = 1
    /\ calls = {"CA1"}
    /\ budget = MaxEvents
    /\ speeches = Utterances
    /\ fault_budget = MaxFaults
    /\ phones = {"+15550001"}

\* The webhooks of one call, two of which may be in flight and interleave at
\* their awaits.
InitConcurrent ==
    /\ InitBase
    /\ conc = 2
    /\ calls = {"CA1"}
    /\ budget = MaxConcurrentEvents
    /\ speeches = { <<" ">>, <<" ", "N", "o">> }
    /\ fault_budget = MaxConcurrentFaults
    /\ phones = {"+15550001"}

\* The webhooks of two calls, delivered and handled one at a time.
InitTwoCalls ==
    /\ InitBase
    /\ conc = 1
    /\ calls = CallIds
    /\ budget = MaxTwoCallEvents
    /\ speeches = { <<" ">>, <<" ", "N", "o">> }
    /\ fault_budget = MaxTwoCallFaults
    /\ phones = {"+15550001"}

\* The webhooks of two calls, two of which may be in flight and interleave
\* at their awaits.
InitTwoCallsConcurrent ==
    /\ InitBase
    /\ conc = 2
    /\ calls = CallIds
    /\ budget = MaxTwoCallConcurrentEvents
    /\ speeches = { <<" ">>, <<" ", "N", "o">> }
    /\ fault_budget = MaxTwoCallConcurrentFaults
    /\ phones = {"+15550001"}

\* The state change shared by every segment: install the new store, heap,
\* coroutines and audit, dropping unreferenced dicts.
Install(cs, hp, hs, au) ==
    /\ call_sessions' = cs
    /\ handlers' = hs
    /\ heap' = Sweep(hp, NewSession, cs, hs)
    /\ audit' = Sweep(au, NewAudit, cs, hs)

\* The coroutine in slot s returns (or raises): its slot is free again.
Finish(cs, hp, s, h, au, reply) ==
    /\ Install(cs, hp, [handlers EXCEPT ![s] = Idle], au)
    /\ done' = [h EXCEPT !.reply = reply, !.pc = "done",
                         !.last_session = IF h.session # 0 THEN hp[h.session] ELSE NewSession,
                         !.last_audit = IF h.session # 0 THEN au[h.session] ELSE NewAudit]

\* The coroutines inside a synchronous call to the language model
\* (utils.generate_response uses the blocking OpenAI client and is called
\* without await, main.py:215): such a coroutine keeps the event loop until
\* the call returns.
LoopHeldBy == {s \in Slots : handlers[s].pc = "ps_llm"}

\* The event loop can run the coroutine in slot s.
Runnable(s) == LoopHeldBy \subseteq {s}

\* A webhook is accepted and its handler starts running.
CanDeliver ==
    /\ clock < budget
    /\ Cardinality(Active(handlers)) < conc
    /\ LoopHeldBy = {}

\* A collaborator call returns (ok) or fails.
Outcome(ok) ==
    /\ ok \/ faults < fault_budget
    /\ faults' = IF ok THEN faults ELSE faults + 1

\* Two collaborator calls in one segment; the second is made only if the
\* first returned.
Outcome2(ok1, ok2) ==
    /\ ok1 \/ ok2
    /\ (ok1 /\ ok2) \/ faults < fault_budget
    /\ faults' = IF ok1 /\ ok2 THEN faults ELSE faults + 1

\* ---------------------------------------------------------------- /answer
\* A CallStarted webhook arrives; answer_call runs to its first await
\* (get_organization_by_phone, main.py:107).
DeliverStart ==
    \E c \in calls :
        /\ CanDeliver
        /\ clock' = clock + 1
        /\ handlers' = [handlers EXCEPT ![FreeSlot(handlers)] =
                           [Idle EXCEPT !.kind = "answer", !.pc = "an_org", !.call_sid = c]]
        /\ done' = Idle
        /\ UNCHANGED << call_sessions, heap, orders, created_mails, summary_mails,
                        audit, conc, phones, admin_vars, calls, budget, speeches, fault_budget, faults >>

\* get_organization_by_phone returns (an id or None) or raises; then the
\* coroutine awaits save_call_start (main.py:110).
AnswerOrgLookup ==
    \E s \in Slots, ok \in BOOLEAN, org \in Orgs \cup {0} :
        LET h == handlers[s] IN
        /\ h.pc = "an_org"
        /\ Runnable(s)
        /\ Outcome(ok)
        /\ IF ok
           THEN /\ handlers' = [handlers EXCEPT ![s] =
                                   [h EXCEPT !.pc = "an_log", !.organization_id = org]]
                /\ UNCHANGED << call_sessions, heap, audit, done >>
           ELSE /\ org = 0
                /\ Finish(call_sessions, heap, s, h, audit, "error")
        /\ UNCHANGED << orders, created_mails, summary_mails, clock, conc, phones, admin_vars,
                        calls, budget, speeches, fault_budget >>

\* save_call_start returns or raises; on return main.py:112-115 run (the
\* session is fetched or created, caller_phone and start_time are set) and
\* the coroutine awaits get_active_business (main.py:120).
AnswerCallLog ==
    \E s \in Slots, ok \in BOOLEAN, from \in phones :
        LET h == handlers[s]
            g == get_call_session(call_sessions, heap, handlers, h.call_sid)
            hp2 == [g.heap EXCEPT ![g.obj].caller_phone = from,
                                  ![g.obj].start_time = clock]
        IN
        /\ h.pc = "an_log"
        /\ Runnable(s)
        /\ Outcome(ok)
        /\ IF ok
           THEN /\ Install(g.sessions, hp2,
                           [handlers EXCEPT ![s] = [h EXCEPT !.pc = "an_cfg", !.session = g.obj]],
                           audit)
                /\ UNCHANGED done
           ELSE Finish(call_sessions, heap, s, h, audit, "error")
        /\ UNCHANGED << orders, created_mails, summary_mails, clock, conc, phones, admin_vars,
                        calls, budget, speeches, fault_budget >>

\* get_active_business returns or raises; on return the greeting is the reply.
AnswerConfig ==
    \E s \in Slots, ok \in BOOLEAN :
        LET h == handlers[s] IN
        /\ h.pc = "an_cfg"
        /\ Runnable(s)
        /\ Outcome(ok)
        /\ Finish(call_sessions, heap, s, h, audit, IF ok THEN "greeting" ELSE "error")
        /\ UNCHANGED << orders, created_mails, summary_mails, clock, conc, phones, admin_vars,
                        calls, budget, speeches, fault_budget >>

\* --------------------------------------------------------------- /process
\* Variant: generate_response returning an empty text when the call to the
\* model raises.
generate_response_silent(ok) == IF ok THEN Reply ELSE ""

\* utils.generate_response: the model's text, or the fixed apology when the
\* call to the model raises.
generate_response(ok) == IF ok THEN Reply ELSE Fallback

OrderKeywords ==
    { <<"p", "i", "z", "z", "a">>,
      <<"o", "r", "d", "e", "r">>,
      <<"w", "a", "n", "t">>,
      <<"l", "i", "k", "e">>,
      <<"g", "e", "t">> }

ExtractionFailedItems ==
    <<"O", "r", "d", "e", "r", " ", "d", "e", "t", "a", "i", "l", "s", " ",
      "f", "r", "o", "m", " ", "c", "o", "n", "v", "e", "r", "s", "a", "t",
      "i", "o", "n", " ", "(", "e", "x", "t", "r", "a", "c", "t", "i", "o",
      "n", " ", "f", "a", "i", "l", "e", "d", ")">>

\* The keyword scan of extract_order_info's except branch: the caller
\* utterances that hold an order keyword, each followed by a space.
RECURSIVE ItemsText(_)
ItemsText(history) ==
    IF history = <<>> THEN <<>>
    ELSE LET turn == history[Len(history)]
             rest == ItemsText(SubSeq(history, 1, Len(history) - 1))
         IN  IF \E word \in OrderKeywords : Contains(Lower(turn.user), word)
             THEN rest \o turn.user \o <<" ">>
             ELSE rest

\* utils.extract_order_info, reduced to the "items" field of its result:
\* what the model returned, or the keyword scan when the call raised.
extract_order_info(history, ok, llm_items) ==
    IF ok THEN llm_items
    ELSE IF ItemsText(history) # <<>> THEN Strip(ItemsText(history))
         ELSE ExtractionFailedItems

\* `str(order_info.get("items", "") or "")`
ItemsStr(items) == IF items = None THEN <<>> ELSE items

\* has_items of process_speech (main.py:235-236).
has_items(items) ==
    /\ ItemsStr(items) # <<>>
    /\ Lower(ItemsStr(items)) \notin { <<"n", "u", "l", "l">>, <<"n", "o", "n", "e">>, <<>> }
    /\ Len(Strip(ItemsStr(items))) > MinItemsLen

\* Variant: `session.get("order_saved")` read as always unset.
order_saved_never(session) == FALSE

\* `session.get("order_saved")` (main.py:246, 260, 329).
order_saved(session) == session.order_saved

end_call_phrases ==
    { <<"n", "o">>,
      <<"n", "o", " ", "t", "h", "a", "n", "k", "s">>,
      <<"n", "o", "t", "h", "i", "n", "g", " ", "e", "l", "s", "e">>,
      <<"t", "h", "a", "t", "'", "s", " ", "a", "l", "l">>,
      <<"n", "o", " ", "t", "h", "a", "t", "'", "s", " ", "i", "t">>,
      <<"g", "o", "o", "d", "b", "y", "e">>,
      <<"b", "y", "e">>,
      <<"t", "h", "a", "t", "'", "s", " ", "e", "v", "e", "r", "y", "t", "h", "i", "n", "g">>,
      <<"y", "e", "s", " ", "t", "h", "a", "t", "'", "s", " ", "c", "o", "r", "r", "e", "c", "t">>,
      <<"y", "e", "s", " ", "t", "h", "a", "t", "'", "s", " ", "r", "i", "g", "h", "t">>,
      <<"c", "o", "r", "r", "e", "c", "t">>,
      <<"t", "h", "a", "t", "'", "s", " ", "c", "o", "r", "r", "e", "c", "t">> }

\* Variant: the caller-wants-to-end test without the order_saved conjunct.
WantsToEndOnPhrase(user_input, session) ==
    \E phrase \in end_call_phrases : Contains(Lower(user_input), phrase)

\* The caller-wants-to-end test of main.py:258-260.
WantsToEnd(user_input, session) ==
    /\ \E phrase \in end_call_phrases : Contains(Lower(user_input), phrase)
    /\ order_saved(session)

\* database.save_order: always an INSERT of a new row; the id returned is
\* the new row's.
save_order(rows, call_sid, items) == Append(rows, [call_sid |-> call_sid, items |-> items])

\* The history after `conversation_history.append(...)` of main.py:194.
AppendTurn(history, user_input) ==
    Append(history, [user |-> user_input, assistant |-> ""])

\* Variant: the SpeechResult kept as delivered, without the strip.
StoreSpeech(speech) == speech

\* `form.get("SpeechResult", "").strip()` of main.py:154.
UserInput(speech) == Strip(speech)

\* main.py:257-295 up to the await of get_active_business: which reply the
\* coroutine is about to give.
AfterGate(h, session) ==
    [h EXCEPT !.pc = IF WantsToEnd(h.user_input, session) THEN "ps_close_cfg"
                     ELSE "ps_reply_cfg"]

\* A CallTurn webhook arrives; process_speech runs main.py:152-201: the
\* session is fetched or created, an empty input goes to the re-prompt,
\* anything else is appended to the history.
DeliverTurn ==
    \E c \in calls, speech \in speeches, from \in phones :
        LET s == FreeSlot(handlers)
            user_input == UserInput(speech)
            g == get_call_session(call_sessions, heap, handlers, c)
            o == g.obj
            hp1 == [g.heap EXCEPT ![o].caller_phone = from]
            h0 == [Idle EXCEPT !.kind = "process", !.call_sid = c, !.speech = speech,
                               !.user_input = user_input, !.session = o]
        IN
        /\ CanDeliver
        /\ clock' = clock + 1
        /\ done' = Idle
        /\ IF user_input = <<>>
           THEN Install(g.sessions, hp1,
                        [handlers EXCEPT ![s] = [h0 EXCEPT !.pc = "ps_empty_cfg"]], audit)
           ELSE LET hp2 == [hp1 EXCEPT ![o].conversation_history =
                                          AppendTurn(@, user_input)]
                    org == hp2[o].organization_id
                IN  Install(g.sessions, hp2,
                            [handlers EXCEPT ![s] =
                                [h0 EXCEPT !.pc = IF org = 0 THEN "ps_org" ELSE "ps_cfg",
                                           !.organization_id = org,
                                           !.turn_number = Len(hp2[o].conversation_history)]],
                            [audit EXCEPT ![o].submitted = Append(@, speech)])
        /\ UNCHANGED << orders, created_mails, summary_mails, conc, phones, admin_vars,
                        calls, budget, speeches, fault_budget, faults >>

\* Empty input: get_active_business (main.py:185) returns or raises; on
\* return the reply is the "please repeat" gather.
ProcessEmptyConfig ==
    \E s \in Slots, ok \in BOOLEAN :
        LET h == handlers[s] IN
        /\ h.pc = "ps_empty_cfg"
        /\ Runnable(s)
        /\ Outcome(ok)
        /\ Finish(call_sessions, heap, s, h, audit, IF ok THEN "repeat" ELSE "error")
        /\ UNCHANGED << orders, created_mails, summary_mails, clock, conc, phones, admin_vars,
                        calls, budget, speeches, fault_budget >>

\* get_organization_by_phone (main.py:201) returns or raises; an id found is
\* cached in the session.
ProcessOrgLookup ==
    \E s \in Slots, ok \in BOOLEAN, org \in Orgs \cup {0} :
        LET h == handlers[s] IN
        /\ h.pc = "ps_org"
        /\ Runnable(s)
        /\ Outcome(ok)
        /\ IF ok
           THEN /\ Install(call_sessions,
                           IF org # 0 THEN [heap EXCEPT ![h.session].organization_id = org]
                           ELSE heap,
                           [handlers EXCEPT ![s] =
                               [h EXCEPT !.pc = "ps_cfg", !.organization_id = org]],
                           audit)
                /\ UNCHANGED done
           ELSE /\ org = 0
                /\ Finish(call_sessions, heap, s, h, audit, "error")
        /\ UNCHANGED << orders, created_mails, summary_mails, clock, conc, phones, admin_vars,
                        calls, budget, speeches, fault_budget >>

\* get_active_business (main.py:206) returns or raises; on return the
\* coroutine calls generate_response (main.py:215), a synchronous call.
ProcessConfig ==
    \E s \in Slots, ok \in BOOLEAN :
        LET h == handlers[s] IN
        /\ h.pc = "ps_cfg"
        /\ Runnable(s)
        /\ Outcome(ok)
        /\ IF ok
           THEN /\ Install(call_sessions, heap,
                           [handlers EXCEPT ![s] = [h EXCEPT !.pc = "ps_llm"]], audit)
                /\ UNCHANGED done
           ELSE Finish(call_sessions, heap, s, h, audit, "error")
        /\ UNCHANGED << orders, created_mails, summary_mails, clock, conc, phones, admin_vars,
                        calls, budget, speeches, fault_budget >>

\* generate_response returns the model's text or, when the call to the
\* model failed, the apology; the text is written into the last history
\* entry (main.py:222); then the coroutine awaits save_conversation_turn.
ProcessRespond ==
    \E s \in Slots, responder_ok \in BOOLEAN :
        LET h == handlers[s]
            o == h.session
            ai_response == generate_response(responder_ok)
            last == Len(heap[o].conversation_history)
        IN
        /\ h.pc = "ps_llm"
        /\ Runnable(s)
        /\ Outcome(responder_ok)
        /\ Install(call_sessions,
                   [heap EXCEPT ![o].conversation_history[last].assistant = ai_response],
                   [handlers EXCEPT ![s] =
                       [h EXCEPT !.pc = "ps_turn", !.ai_response = ai_response,
                                 !.responder_failed = ~responder_ok]],
                   audit)
        /\ UNCHANGED << orders, created_mails, summary_mails, clock, conc, phones, admin_vars,
                        calls, budget, speeches, fault_budget, done >>

\* Variant: the extraction gate open on every turn.
ExtractionGateAnyTurn(history) == history # <<>>

\* `if len(session["conversation_history"]) >= 3:` (main.py:228).
ExtractionGate(history) == Len(history) >= ExtractionThreshold

\* save_conversation_turn (main.py:225) returns or raises; on return the
\* extraction gate runs (main.py:228-239): from the third turn on the
\* extractor is called, and a result with items goes on to save_order.
ProcessTurnLog ==
    \E s \in Slots, ok \in BOOLEAN, extractor_ok \in BOOLEAN, llm_items \in LLMItems :
        LET h == handlers[s]
            o == h.session
            history == heap[o].conversation_history
            items == extract_order_info(history, extractor_ok, llm_items)
            gate == ExtractionGate(history)
        IN
        /\ h.pc = "ps_turn"
        /\ Runnable(s)
        /\ Outcome2(ok, extractor_ok)
        /\ (ok /\ gate /\ extractor_ok) \/ llm_items = None
        /\ (ok /\ gate) \/ extractor_ok
        /\ IF ~ok
           THEN Finish(call_sessions, heap, s, h, audit, "error")
           ELSE /\ Install(call_sessions, heap,
                           [handlers EXCEPT ![s] =
                               IF ~gate THEN AfterGate(h, heap[o])
                               ELSE IF has_items(items)
                               THEN [h EXCEPT !.order_info = items, !.extracted = @ + 1,
                                              !.pc = "ps_save"]
                               ELSE AfterGate([h EXCEPT !.order_info = items,
                                                        !.extracted = @ + 1], heap[o])],
                           audit)
                /\ UNCHANGED done
        /\ UNCHANGED << orders, created_mails, summary_mails, clock, conc, phones, admin_vars,
                        calls, budget, speeches, fault_budget >>

\* Variant: the session marked saved whether or not save_order returned.
AfterSaveOrderMarksAlways(session, ok, order_id) ==
    [session EXCEPT !.order_saved = TRUE, !.order_id = IF ok THEN order_id ELSE @]

\* Variant: order_saved set to the outcome of the latest save_order call.
AfterSaveOrderStoresOutcome(session, ok, order_id) ==
    [session EXCEPT !.order_saved = ok, !.order_id = IF ok THEN order_id ELSE @]

\* The session after `await save_order(...)` of main.py:242: marked saved,
\* with the row's id, on the first save that returns (main.py:246-248);
\* untouched when save_order raised (main.py:251-253).
AfterSaveOrder(session, ok, order_id) ==
    IF ok /\ ~order_saved(session)
    THEN [session EXCEPT !.order_saved = TRUE, !.order_id = order_id]
    ELSE session

\* save_order (main.py:242) returns the new row's id or raises; on return
\* the first save of the session marks it saved and sends the order mail
\* (main.py:246-250); a failure is logged and the turn goes on.
ProcessSaveOrder ==
    \E s \in Slots, ok \in BOOLEAN :
        LET h == handlers[s]
            o == h.session
            c == h.call_sid
            rows == save_order(orders, c, h.order_info)
            first == ~order_saved(heap[o])
            hp2 == [heap EXCEPT ![o] = AfterSaveOrder(@, ok, Len(rows))]
            h2 == IF ok
                  THEN [h EXCEPT !.inserted = @ + 1,
                                 !.notified = IF first THEN @ + 1 ELSE @]
                  ELSE [h EXCEPT !.save_failed = @ + 1]
        IN
        /\ h.pc = "ps_save"
        /\ Runnable(s)
        /\ Outcome(ok)
        /\ orders' = IF ok THEN rows ELSE orders
        /\ created_mails' = IF ok /\ first THEN [created_mails EXCEPT ![c] = @ + 1]
                            ELSE created_mails
        /\ Install(call_sessions, hp2,
                   [handlers EXCEPT ![s] = AfterGate(h2, hp2[o])],
                   IF ok
                   THEN [audit EXCEPT ![o].turn_inserts = @ + 1,
                                      ![o].turn_mails = IF first THEN @ + 1 ELSE @]
                   ELSE [audit EXCEPT ![o].turn_save_failures = @ + 1])
        /\ UNCHANGED << summary_mails, clock, conc, phones, admin_vars,
                        calls, budget, speeches, fault_budget, done >>

\* Variant: the closing reply that also drops the session.
ProcessClosingConfigRemoves ==
    \E s \in Slots, ok \in BOOLEAN :
        LET h == handlers[s] IN
        /\ h.pc = "ps_close_cfg"
        /\ Runnable(s)
        /\ Outcome(ok)
        /\ Finish([call_sessions EXCEPT ![h.call_sid] = 0], heap, s, h, audit,
                  IF ok THEN "closing" ELSE "error")
        /\ UNCHANGED << orders, created_mails, summary_mails, clock, conc, phones, admin_vars,
                        calls, budget, speeches, fault_budget >>

\* get_active_business (main.py:263) returns or raises; on return the reply
\* is the closing message followed by a hang-up.
ProcessClosingConfig ==
    \E s \in Slots, ok \in BOOLEAN :
        LET h == handlers[s] IN
        /\ h.pc = "ps_close_cfg"
        /\ Runnable(s)
        /\ Outcome(ok)
        /\ Finish(call_sessions, heap, s, h, audit, IF ok THEN "closing" ELSE "error")
        /\ UNCHANGED << orders, created_mails, summary_mails, clock, conc, phones, admin_vars,
                        calls, budget, speeches, fault_budget >>

\* get_active_business (main.py:283) returns or raises; on return the reply
\* is the assistant's text in a new gather.
ProcessReplyConfig ==
    \E s \in Slots, ok \in BOOLEAN :
        LET h == handlers[s] IN
        /\ h.pc = "ps_reply_cfg"
        /\ Runnable(s)
        /\ Outcome(ok)
        /\ Finish(call_sessions, heap, s, h, audit, IF ok THEN "assistant" ELSE "error")
        /\ UNCHANGED << orders, created_mails, summary_mails, clock, conc, phones, admin_vars,
                        calls, budget, speeches, fault_budget >>

\* ---------------------------------------------------------------- /hangup
\* A CallEnded webhook arrives; hangup_call computes the duration
\* (main.py:307-313) and awaits save_call_end (main.py:316).
DeliverEnd ==
    \E c \in calls :
        LET o == call_sessions[c]
            duration == IF o # 0 /\ heap[o].start_time # 0
                        THEN (clock + 1) - heap[o].start_time ELSE -1
        IN
        /\ CanDeliver
        /\ clock' = clock + 1
        /\ handlers' = [handlers EXCEPT ![FreeSlot(handlers)] =
                           [Idle EXCEPT !.kind = "hangup", !.pc = "hu_log", !.call_sid = c,
                                        !.duration = duration]]
        /\ done' = Idle
        /\ UNCHANGED << call_sessions, heap, orders, created_mails, summary_mails,
                        audit, conc, phones, admin_vars, calls, budget, speeches, fault_budget, faults >>

\* Variant: the end-of-call extraction gated by the turn threshold.
ForcedExtractionFromThreshold(history) == Len(history) >= ExtractionThreshold

\* `if session["conversation_history"]:` (main.py:322).
ForcedExtraction(history) == history # <<>>

\* Variant: the summary mail sent only for an order with items.
SummaryOnlyWithItems(s, h, hp, au) ==
    LET c == h.call_sid
        send == has_items(h.order_info)
        h2 == [h EXCEPT !.summarised = IF send THEN @ + 1 ELSE @]
    IN
    /\ summary_mails' = IF send THEN [summary_mails EXCEPT ![c] = @ + 1] ELSE summary_mails
    /\ IF call_sessions[c] # 0
       THEN Finish([call_sessions EXCEPT ![c] = 0], hp, s,
                   [h2 EXCEPT !.removed = TRUE], au, "hangup")
       ELSE Finish(call_sessions, hp, s, h2, au, "error")

\* main.py:352-372: the conversation-summary mail, then
\* `del call_sessions[call_sid]`, which raises KeyError when the key is gone.
SummaryAndCleanup(s, h, hp, au) ==
    LET c == h.call_sid
        h2 == [h EXCEPT !.summarised = @ + 1]
    IN
    /\ summary_mails' = [summary_mails EXCEPT ![c] = @ + 1]
    /\ IF call_sessions[c] # 0
       THEN Finish([call_sessions EXCEPT ![c] = 0], hp, s,
                   [h2 EXCEPT !.removed = TRUE], au, "hangup")
       ELSE Finish(call_sessions, hp, s, h2, au, "error")

\* Variant: the cleanup of main.py:372 done without the membership test of
\* main.py:318, so that a missing key raises KeyError.
EndWithoutSessionRaises(s, h) ==
    /\ Finish(call_sessions, heap, s, h, audit, "error")
    /\ UNCHANGED summary_mails

\* `if call_sid in call_sessions:` is false (main.py:318): the block is
\* skipped and the hang-up is returned (main.py:374-376).
EndWithoutSession(s, h) ==
    /\ Finish(call_sessions, heap, s, h, audit, "hangup")
    /\ UNCHANGED summary_mails

\* save_call_end returns or raises; on return main.py:318-336 run: with a
\* session and a non-empty history the extractor is called; a session not
\* yet saved goes on to save_order (by way of the organization lookup when
\* the session holds no organization); a saved one is summarised and
\* removed; a session with an empty history is removed at once.
HangupCallLog ==
    \E s \in Slots, ok \in BOOLEAN, extractor_ok \in BOOLEAN, llm_items \in LLMItems :
        LET h == handlers[s]
            c == h.call_sid
            o == call_sessions[c]
            session == heap[o]
            history == session.conversation_history
            extracts == ok /\ o # 0 /\ ForcedExtraction(history)
            h1 == [h EXCEPT !.found = TRUE, !.session = o, !.hist_len = Len(history),
                            !.was_saved = session.order_saved]
            h2 == [h1 EXCEPT !.extracted = @ + 1,
                             !.order_info = extract_order_info(history, extractor_ok, llm_items),
                             !.organization_id = session.organization_id]
        IN
        /\ h.pc = "hu_log"
        /\ Runnable(s)
        /\ Outcome2(ok, extractor_ok)
        /\ (extracts /\ extractor_ok) \/ llm_items = None
        /\ extracts \/ extractor_ok
        /\ IF ~ok
           THEN /\ Finish(call_sessions, heap, s, h, audit, "error")
                /\ UNCHANGED summary_mails
           ELSE IF o = 0
           THEN EndWithoutSession(s, h)
           ELSE IF ~ForcedExtraction(history)
           THEN /\ Finish([call_sessions EXCEPT ![c] = 0], heap, s,
                          [h1 EXCEPT !.removed = TRUE], audit, "hangup")
                /\ UNCHANGED summary_mails
           ELSE IF ~order_saved(session)
           THEN /\ Install(call_sessions, heap,
                           [handlers EXCEPT ![s] =
                               [h2 EXCEPT !.pc = IF session.organization_id = 0
                                                 THEN "hu_org" ELSE "hu_save"]],
                           audit)
                /\ UNCHANGED << done, summary_mails >>
           ELSE SummaryAndCleanup(s, h2, heap, audit)
        /\ UNCHANGED << orders, created_mails, clock, conc, phones, admin_vars,
                        calls, budget, speeches, fault_budget >>

\* get_organization_by_phone (main.py:334) returns or raises; a failure is
\* caught by the handler of main.py:342, which still sends the order mail.
HangupOrgLookup ==
    \E s \in Slots, ok \in BOOLEAN, org \in Orgs \cup {0} :
        LET h == handlers[s]
            c == h.call_sid
            o == h.session
        IN
        /\ h.pc = "hu_org"
        /\ Runnable(s)
        /\ Outcome(ok)
        /\ IF ok
           THEN /\ Install(call_sessions, heap,
                           [handlers EXCEPT ![s] =
                               [h EXCEPT !.pc = "hu_save", !.organization_id = org]],
                           audit)
                /\ UNCHANGED << done, created_mails, summary_mails >>
           ELSE /\ org = 0
                /\ created_mails' = [created_mails EXCEPT ![c] = @ + 1]
                /\ SummaryAndCleanup(s, [h EXCEPT !.notified = @ + 1, !.save_failed = @ + 1],
                                     heap, [audit EXCEPT ![o].end_mails = @ + 1])
        /\ UNCHANGED << orders, clock, conc, phones, admin_vars,
                        calls, budget, speeches, fault_budget >>

\* save_order (main.py:336) returns or raises; either way the order mail is
\* sent (main.py:340 or 346); on return the session is marked saved; then
\* the summary is sent and the session removed.
HangupSaveOrder ==
    \E s \in Slots, ok \in BOOLEAN :
        LET h == handlers[s]
            c == h.call_sid
            o == h.session
            h2 == IF ok THEN [h EXCEPT !.inserted = @ + 1, !.notified = @ + 1]
                  ELSE [h EXCEPT !.save_failed = @ + 1, !.notified = @ + 1]
        IN
        /\ h.pc = "hu_save"
        /\ Runnable(s)
        /\ Outcome(ok)
        /\ orders' = IF ok THEN save_order(orders, c, h.order_info) ELSE orders
        /\ created_mails' = [created_mails EXCEPT ![c] = @ + 1]
        /\ SummaryAndCleanup(s, h2,
                             IF ok THEN [heap EXCEPT ![o].order_saved = TRUE] ELSE heap,
                             [audit EXCEPT ![o].end_mails = @ + 1,
                                           ![o].end_inserts = IF ok THEN @ + 1 ELSE @])
        /\ UNCHANGED << clock, conc, phones, admin_vars,
                        calls, budget, speeches, fault_budget >>

Next ==
    \/ DeliverStart
    \/ AnswerOrgLookup
    \/ AnswerCallLog
    \/ AnswerConfig
    \/ DeliverTurn
    \/ ProcessEmptyConfig
    \/ ProcessOrgLookup
    \/ ProcessConfig
    \/ ProcessRespond
    \/ ProcessTurnLog
    \/ ProcessSaveOrder
    \/ ProcessClosingConfig
    \/ ProcessReplyConfig
    \/ DeliverEnd
    \/ HangupCallLog
    \/ HangupOrgLookup
    \/ HangupSaveOrder

Spec == Init /\ [][Next]_vars

\* A step of a coroutine in flight: every step but the arrival of a webhook.
HandlerStep == Next /\ clock' = clock

\* The webhooks of one call handled one at a time, where every awaited call
\* completes (returns or raises) and the event loop then resumes the
\* coroutine; the provider is not obliged to deliver further webhooks.
SpecFair == Init /\ [][Next]_vars /\ WF_vars(HandlerStep)

SpecConcurrent == InitConcurrent /\ [][Next]_vars

SpecTwoCalls == InitTwoCalls /\ [][Next]_vars

SpecTwoCallsConcurrent == InitTwoCallsConcurrent /\ [][Next]_vars

\* The webhooks of one call, handled one at a time, each carrying either of
\* two From numbers.
InitTwoPhones ==
    /\ InitBase
    /\ conc = 1
    /\ calls = {"CA1"}
    /\ budget = MaxTwoPhoneEvents
    /\ speeches = Utterances
    /\ fault_budget = MaxTwoPhoneFaults
    /\ phones = Phones

SpecTwoPhones == InitTwoPhones /\ [][Next]_vars

\* ---------------------------------------------------------- business API
\* The variables of the call webhooks, which the business API leaves alone.
call_vars == << call_sessions, heap, handlers, orders, created_mails, summary_mails,
                audit, clock, conc, calls, budget, speeches, fault_budget, faults,
                done, phones >>

FreeAdminSlot == CHOOSE a \in AdminSlots : admin[a].kind = "idle"

\* A request to the business API is accepted.
CanAccept ==
    /\ requests < MaxAdminRequests
    /\ \E a \in AdminSlots : admin[a].kind = "idle"
    /\ LoopHeldBy = {}

\* `SELECT * FROM businesses WHERE is_active = true [AND organization_id =
\* $1] LIMIT 1` (database.py:914-926): the ids the query may return.  With
\* organization 0 (None) no organization filter applies; without ORDER BY
\* any matching row can be the one returned.
get_active_business(table, organization_id) ==
    { b \in BusinessIds :
        /\ table[b].present
        /\ table[b].is_active
        /\ organization_id # 0 => table[b].organization_id = organization_id }

\* `UPDATE businesses SET is_active = false WHERE organization_id = $1`
\* (database.py:950).
DeactivateAll(table, organization_id) ==
    [ b \in BusinessIds |->
        IF table[b].present /\ table[b].organization_id = organization_id
        THEN [table[b] EXCEPT !.is_active = FALSE]
        ELSE table[b] ]

\* `UPDATE businesses SET is_active = true WHERE id = $1 AND
\* organization_id = $2` (database.py:952).
ActivateSelected(table, business_id, organization_id) ==
    [ b \in BusinessIds |->
        IF /\ table[b].present
           /\ b = business_id
           /\ table[b].organization_id = organization_id
        THEN [table[b] EXCEPT !.is_active = TRUE]
        ELSE table[b] ]

\* `DELETE FROM businesses WHERE id = $1` (database.py:1004).
delete_business(table, business_id) ==
    [ table EXCEPT ![business_id] = [@ EXCEPT !.present = FALSE, !.is_active = FALSE] ]

\* POST /api/businesses/{business_id}/activate arrives for the organization
\* of the signed-in user; activate_business_api runs to its first await,
\* get_business (main.py:665).
DeliverActivate ==
    \E b \in BusinessIds, org \in Organizations :
        /\ CanAccept
        /\ requests' = requests + 1
        /\ admin' = [admin EXCEPT ![FreeAdminSlot] =
                        [ kind |-> "activate", pc |-> "ac_get",
                          business_id |-> b, org_id |-> org ]]
        /\ UNCHANGED << businesses, call_vars >>

\* get_business returns: a missing row or one of another organization ends
\* the request with 404 (main.py:666-667); otherwise set_active_business
\* sends its first statement (database.py:950).
ActivateLookup ==
    \E a \in AdminSlots :
        LET r == admin[a]
            row == businesses[r.business_id]
        IN
        /\ r.pc = "ac_get"
        /\ LoopHeldBy = {}
        /\ admin' = [admin EXCEPT ![a] =
                        IF row.present /\ row.organization_id = r.org_id
                        THEN [r EXCEPT !.pc = "ac_deactivate"]
                        ELSE AdminIdle]
        /\ UNCHANGED << businesses, requests, call_vars >>

\* The deactivate-all statement commits; the coroutine sends the activate
\* statement (database.py:952).  The two run on one connection in
\* autocommit, with no transaction around them.
ActivateDeactivateAll ==
    \E a \in AdminSlots :
        LET r == admin[a] IN
        /\ r.pc = "ac_deactivate"
        /\ LoopHeldBy = {}
        /\ businesses' = DeactivateAll(businesses, r.org_id)
        /\ admin' = [admin EXCEPT ![a] = [r EXCEPT !.pc = "ac_activate"]]
        /\ UNCHANGED << requests, call_vars >>

\* The activate statement commits and the request returns success
\* (main.py:669-673; load_active_business only reads).
ActivateCommit ==
    \E a \in AdminSlots :
        LET r == admin[a] IN
        /\ r.pc = "ac_activate"
        /\ LoopHeldBy = {}
        /\ businesses' = ActivateSelected(businesses, r.business_id, r.org_id)
        /\ admin' = [admin EXCEPT ![a] = AdminIdle]
        /\ UNCHANGED << requests, call_vars >>

\* DELETE /api/businesses/{business_id} arrives; delete_business_api runs
\* to its first await, get_active_business() (main.py:817).
DeliverDelete ==
    \E b \in BusinessIds :
        /\ CanAccept
        /\ requests' = requests + 1
        /\ admin' = [admin EXCEPT ![FreeAdminSlot] =
                        [ kind |-> "delete", pc |-> "dl_active",
                          business_id |-> b, org_id |-> 0 ]]
        /\ UNCHANGED << businesses, call_vars >>

\* What `active = await get_active_business()`, called without an
\* organization, may hold (main.py:817): the id of the row returned, 0 when
\* no row was returned.
ActiveForDelete(table) ==
    IF get_active_business(table, 0) = {} THEN {0} ELSE get_active_business(table, 0)

\* get_active_business() returns: when the row returned is business_id the
\* request is rejected (main.py:818-819); otherwise delete_business sends
\* its statement (main.py:821).
DeleteCheck ==
    \E a \in AdminSlots :
        LET r == admin[a] IN
        /\ r.pc = "dl_active"
        /\ LoopHeldBy = {}
        /\ \E active \in ActiveForDelete(businesses) :
              admin' = [admin EXCEPT ![a] =
                           IF active = r.business_id
                           THEN AdminIdle
                           ELSE [r EXCEPT !.pc = "dl_delete"]]
        /\ UNCHANGED << businesses, requests, call_vars >>

\* The DELETE statement commits and the request returns success
\* (main.py:821-822).
DeleteCommit ==
    \E a \in AdminSlots :
        LET r == admin[a] IN
        /\ r.pc = "dl_delete"
        /\ LoopHeldBy = {}
        /\ businesses' = delete_business(businesses, r.business_id)
        /\ admin' = [admin EXCEPT ![a] = AdminIdle]
        /\ UNCHANGED << requests, call_vars >>

\* The business API with no call in progress.
InitBusinesses ==
    /\ InitBase
    /\ conc = 1
    /\ calls = {}
    /\ budget = 0
    /\ speeches = {}
    /\ fault_budget = 0
    /\ phones = {}

NextBusinesses ==
    \/ DeliverActivate
    \/ ActivateLookup
    \/ ActivateDeactivateAll
    \/ ActivateCommit
    \/ DeliverDelete
    \/ DeleteCheck
    \/ DeleteCommit

SpecBusinesses == InitBusinesses /\ [][NextBusinesses]_vars

\* ------------------------------------------------------------- properties
Users(history) == [i \in 1..Len(history) |-> history[i].user]

IsPrefix(a, b) == Len(a) <= Len(b) /\ SubSeq(b, 1, Len(a)) = a

\* The bookkeeping of every session in view: the live ones and the one the
\* coroutine that finished last worked on.
Audits == {audit[o] : o \in ObjIds} \cup {done.last_audit}

EndedWithSession == done.kind = "hangup" /\ done.found

\* C1: within one call, however many turns have an actionable extraction,
\* a new order row is inserted once; later actionable turns insert none.
C1_CreateOncePerCall ==
    \A a \in Audits : a.turn_inserts <= 1

\* C2: for one CallSid, over any sequence of start, turn and end webhooks
\* delivered one at a time, the order mail (save_order_simple) is sent at
\* most once.
C2_OrderMailAtMostOncePerCallSid ==
    \A c \in CallIds : created_mails[c] <= 1

\* C3: when one turn coroutine and one end coroutine of the same call
\* interleave at their awaits, the session still gets at most one order row
\* and at most one order mail.
C3_TurnAndEndInterleaved ==
    \A a \in Audits :
        (a.turn_inserts <= 1 /\ a.end_inserts <= 1 /\ a.turn_mails <= 1 /\ a.end_mails <= 1)
            => /\ a.turn_inserts + a.end_inserts <= 1
               /\ a.turn_mails + a.end_mails <= 1

\* C4 (as stated): after N turns with non-blank SpeechResults the history
\* has N entries and the i-th holds the i-th SpeechResult as submitted.
C4_HistoryHoldsSubmitted ==
    \A o \in ObjIds : Users(heap[o].conversation_history) = audit[o].submitted

\* C4 (amended): after N turns with non-blank SpeechResults the history has
\* N entries and the i-th holds the i-th SpeechResult with its leading and
\* trailing whitespace stripped; and while a session exists its entries are
\* never removed or reordered.
C4_HistoryHoldsStripped ==
    /\ [](\A o \in ObjIds :
            Users(heap[o].conversation_history) =
                [i \in 1..Len(audit[o].submitted) |-> Strip(audit[o].submitted[i])])
    /\ [][\A o \in Live(call_sessions, handlers) \cap Live(call_sessions', handlers') :
            IsPrefix(Users(heap[o].conversation_history),
                     Users(heap'[o].conversation_history))]_vars

\* C4 witness: a session with two turns, the first submitted with padding.
C4_Witness ==
    \E o \in ObjIds :
        /\ Len(heap[o].conversation_history) = 2
        /\ audit[o].submitted[1] # Strip(audit[o].submitted[1])
        /\ heap[o].conversation_history[2].user # heap[o].conversation_history[1].user

\* C5: a start webhook for a CallSid that already has a session keeps that
\* very session (no second one is made) and its history; after main.py:113
\* the CallSid has its one session.
C5_StartKeepsSession ==
    [][\A s \in Slots :
          (handlers[s].pc = "an_log" /\ handlers'[s].pc = "an_cfg") =>
              LET c == handlers[s].call_sid
                  o == call_sessions[c]
              IN  /\ call_sessions'[c] # 0
                  /\ handlers'[s].session = call_sessions'[c]
                  /\ o # 0 => /\ call_sessions'[c] = o
                              /\ heap'[o].conversation_history = heap[o].conversation_history]_vars

\* C5 witness: a start webhook answered with the greeting for a session
\* that already held a turn.
C5_Witness ==
    /\ done.kind = "answer"
    /\ done.reply = "greeting"
    /\ done.last_session.conversation_history # <<>>
    /\ call_sessions[done.call_sid] = done.session

\* C6: a turn whose SpeechResult is empty or blank appends nothing, runs no
\* responder, extraction or persistence, and always returns the "please
\* repeat" re-prompt.
C6_BlankTurnReprompts ==
    (done.kind = "process" /\ done.user_input = <<>>) =>
        /\ done.reply = "repeat"
        /\ done.ai_response = ""
        /\ done.extracted = 0
        /\ done.inserted = 0 /\ done.save_failed = 0 /\ done.notified = 0
        /\ Len(done.last_session.conversation_history) = Len(done.last_audit.submitted)

C10_EndUpdatesSavedOrder ==
    (EndedWithSession /\ done.was_saved) =>
        /\ done.extracted = 1
        /\ done.inserted = 0 /\ done.notified = 0
        /\ done.last_session.order_id \in 1..Len(orders)
        /\ orders[done.last_session.order_id].items = done.order_info

\* C10 (what hangup_call does): an end coroutine that finds a saved session
\* runs the forced extraction but persists nothing: it makes no save attempt
\* and sends no order mail; it sends the summary and removes the session.
C10_EndSkipsSavedOrder ==
    (EndedWithSession /\ done.was_saved) =>
        /\ done.extracted = 1
        /\ done.inserted = 0 /\ done.save_failed = 0 /\ done.notified = 0
        /\ done.last_audit.end_inserts = 0 /\ done.last_audit.end_mails = 0
        /\ done.summarised = 1
        /\ done.removed

\* C10, the case reached: an end webhook handled for a session saved by a turn.
C10_Witness ==
    /\ EndedWithSession /\ done.was_saved
    /\ done.last_audit.turn_inserts = 1
    /\ done.extracted = 1
    /\ done.removed

\* C11: an end coroutine whose save_call_end returned and that finds no
\* session for its CallSid (a duplicate end, or an end with no start or
\* turn before it) does nothing: no extraction, no save, no order mail, no
\* summary, the store, the sessions and the orders table are unchanged, and
\* it returns its hang-up.
C11_EndWithoutSessionIsNoOp ==
    [][\A s \in Slots :
          (/\ handlers[s].pc = "hu_log" /\ handlers'[s].pc = "idle"
           /\ call_sessions[handlers[s].call_sid] = 0
           /\ faults' = faults) =>
              /\ done'.reply = "hangup"
              /\ done'.extracted = 0 /\ done'.inserted = 0 /\ done'.save_failed = 0
              /\ done'.notified = 0 /\ done'.summarised = 0 /\ ~done'.removed
              /\ call_sessions' = call_sessions /\ heap' = heap
              /\ orders' = orders /\ created_mails' = created_mails
              /\ summary_mails' = summary_mails]_vars

\* C11 witness: a second end webhook handled after the first one summarised
\* and removed the session.
C11_Witness ==
    /\ done.kind = "hangup" /\ done.reply = "hangup" /\ ~done.found
    /\ call_sessions[done.call_sid] = 0
    /\ summary_mails[done.call_sid] = 1

\* C12: a turn with a non-empty utterance that returns a reply returns the
\* closing message exactly when the utterance (lower-cased) contains one of
\* the closing phrases and the session is marked saved after this turn's
\* extraction gate; otherwise the reply is the assistant's text in a new
\* gather.  No closing message is returned for a session not marked saved.
C12_ClosingIffPhraseAndSaved ==
    (done.kind = "process" /\ done.user_input # <<>> /\ done.reply # "error") =>
        LET phrase == \E ph \in end_call_phrases : Contains(Lower(done.user_input), ph)
            saved == done.last_session.order_saved
        IN  /\ done.reply = IF phrase /\ saved THEN "closing" ELSE "assistant"
            /\ done.reply = "closing" => saved

\* C12 witness: a turn "No" whose own extraction gate saved the order is
\* answered with the closing message.
C12_Witness ==
    /\ done.kind = "process" /\ done.reply = "closing"
    /\ done.inserted = 1 /\ done.notified = 1
    /\ Lower(done.user_input) = <<"n", "o">>

\* C13: a turn coroutine never calls the extractor (nor save_order, nor
\* sends the order mail) while the history, the current turn included, has
\* fewer than 3 entries; a non-empty turn that returns a reply with 3 or
\* more entries in the history has called the extractor once.
C13_ExtractionFromThirdTurn ==
    /\ \A s \in Slots :
          LET h == handlers[s] IN
          (h.kind = "process" /\ Len(heap[h.session].conversation_history) < 3) =>
              h.extracted = 0 /\ h.inserted = 0 /\ h.save_failed = 0 /\ h.notified = 0
    /\ (done.kind = "process" /\ Len(done.last_session.conversation_history) < 3) =>
          done.extracted = 0 /\ done.inserted = 0 /\ done.save_failed = 0 /\ done.notified = 0
    /\ (done.kind = "process" /\ done.user_input # <<>> /\ done.reply # "error"
            /\ Len(done.last_session.conversation_history) >= 3) =>
          done.extracted = 1

\* C13 witness: the fourth turn of a call ran the extractor and returned
\* the assistant's reply.
C13_Witness ==
    /\ done.kind = "process" /\ done.reply = "assistant"
    /\ Len(done.last_session.conversation_history) = 4
    /\ done.extracted = 1

\* C14: whenever a turn coroutine or an end coroutine has run the extractor
\* and the result has no usable items (has_items is false), it makes no
\* save_order call, sends no order mail and leaves order_saved as it was.
C14_NonActionableNotPersisted ==
    (done.kind \in {"process", "hangup"} /\ done.extracted = 1
        /\ ~has_items(done.order_info)) =>
        /\ done.inserted = 0 /\ done.save_failed = 0 /\ done.notified = 0
        /\ done.kind = "hangup" => done.last_session.order_saved = done.was_saved

\* C15: when save_order raises on a turn of a session not yet saved, the
\* session stays unsaved with no order_id, the turn sends no order mail and,
\* if it returns a reply, returns the assistant's; and creation is
\* attempted again: every later turn whose extraction has items calls
\* save_order, and so does an end coroutine that finds the session unsaved
\* with a non-empty history.
C15_CreateFailureRetried ==
    /\ []((done.kind = "process" /\ done.save_failed = 1
              /\ done.last_audit.turn_inserts = 0) =>
            /\ ~done.last_session.order_saved
            /\ done.last_session.order_id = 0
            /\ done.notified = 0 /\ done.inserted = 0
            /\ done.last_audit.turn_mails = 0
            /\ done.reply \in {"assistant", "error"})
    /\ [][\A s \in Slots :
            /\ (handlers[s].pc = "ps_turn" /\ handlers'[s].extracted = 1
                    /\ has_items(handlers'[s].order_info))
                  => handlers'[s].pc = "ps_save"
            /\ (handlers[s].pc = "hu_log" /\ handlers'[s].pc # "idle")
                  => handlers'[s].pc \in {"hu_org", "hu_save"}
            /\ (handlers[s].pc = "hu_log" /\ handlers'[s].pc = "idle" /\ done'.found
                    /\ done'.hist_len > 0)
                  => done'.was_saved]_vars

\* C15 witness: a turn inserted the order row and sent the order mail after
\* an earlier turn's save_order had raised.
C15_Witness ==
    /\ done.kind = "process" /\ done.reply = "assistant"
    /\ done.inserted = 1 /\ done.notified = 1
    /\ done.last_audit.turn_save_failures = 1
    /\ done.last_session.order_saved

\* C16: while a CallSid keeps a session in the store, and while a coroutine
\* holds a session dict, order_saved never goes from TRUE back to FALSE (so
\* it goes from FALSE to TRUE at most once), whichever handler runs.
C16_OrderSavedMonotone ==
    [][/\ \A c \in CallIds :
            (call_sessions[c] # 0 /\ call_sessions'[c] # 0
                /\ heap[call_sessions[c]].order_saved)
              => /\ call_sessions'[c] = call_sessions[c]
                 /\ heap'[call_sessions'[c]].order_saved
       /\ \A o \in Live(call_sessions, handlers) \cap Live(call_sessions', handlers') :
            heap[o].order_saved => heap'[o].order_saved]_vars

\* C16 witness: on a session already saved a later turn's save_order raised,
\* and the session is still marked saved.
C16_Witness ==
    /\ done.kind = "process"
    /\ done.save_failed = 1
    /\ done.last_audit.turn_inserts = 1
    /\ done.last_session.order_saved
    /\ call_sessions[done.call_sid] = done.session

\* C17: the organization a start coroutine resolved is stored in the
\* session it initialised, and no turn or end coroutine working on a session
\* that a start coroutine initialised (start_time set) calls
\* get_organization_by_phone again.
C17_TenantResolvedOnce ==
    /\ (done.kind = "answer" /\ done.reply = "greeting") =>
          done.last_session.organization_id = done.organization_id
    /\ \A s \in Slots :
          handlers[s].pc \in {"ps_org", "hu_org"} =>
              heap[handlers[s].session].start_time = 0

\* C18: every session in the store has its start_time, whether a start or a
\* turn coroutine created it, and an end coroutine that finds a session has
\* computed a duration for the call.
C18_LazySessionHasStartTime ==
    /\ \A c \in CallIds :
          call_sessions[c] # 0 => heap[call_sessions[c]].start_time # 0
    /\ EndedWithSession => done.duration # -1

\* C19 (as stated): a turn whose responder call failed returns the fixed
\* apology as its reply.
C19_FallbackReturned ==
    (done.kind = "process" /\ done.responder_failed) =>
        /\ done.ai_response = Fallback
        /\ done.reply = "assistant"

\* C19 (amended): a turn whose responder call failed has the fixed apology
\* as its assistant text, which is also the assistant field of the turn's
\* history entry; the turn is in the history; and the turn, when it returns
\* a reply, returns the apology in a new gather, unless the utterance holds
\* a closing phrase and the session is saved, when it returns the closing
\* message.
C19_FallbackRecorded ==
    (done.kind = "process" /\ done.responder_failed) =>
        LET hist == done.last_session.conversation_history IN
        /\ done.ai_response = Fallback
        /\ Len(hist) = Len(done.last_audit.submitted)
        /\ hist[Len(hist)].user = done.user_input
        /\ hist[Len(hist)].assistant = Fallback
        /\ done.reply # "error" =>
              done.reply = IF WantsToEnd(done.user_input, done.last_session)
                           THEN "closing" ELSE "assistant"

\* C19 witness: a turn answered by the responder after an earlier turn of
\* the same session had been answered with the apology.
C19_Witness ==
    LET hist == done.last_session.conversation_history IN
    /\ done.kind = "process" /\ done.reply = "assistant"
    /\ ~done.responder_failed /\ done.ai_response = Reply
    /\ Len(hist) = 2
    /\ hist[1].assistant = Fallback
    /\ hist[2].assistant = Reply

\* C20: whichever collaborator call fails, the handler that made it still
\* returns its reply (greeting, re-prompt, assistant text, closing message
\* or hang-up): no coroutine ends with an exception.
C20_NoFailureEscapes ==
    done.reply # "error"

\* C21: a turn webhook for a CallSid with no session in the store (never
\* started, or removed by an earlier end) gets a new session that holds
\* nothing but this turn and the caller's number, and the coroutine goes on;
\* and a step of a coroutine working for one CallSid leaves the session of
\* every other CallSid in the store as it was.
C21_FreshSessionOthersUntouched ==
    [][/\ \A s \in Slots :
            LET c == handlers'[s].call_sid IN
            (handlers[s].kind = "idle" /\ handlers'[s].kind = "process"
                /\ call_sessions[c] = 0) =>
                LET n == heap'[call_sessions'[c]] IN
                /\ call_sessions'[c] # 0
                /\ \A c2 \in CallIds \ {c} : call_sessions'[c2] # call_sessions'[c]
                /\ handlers'[s].session = call_sessions'[c]
                /\ Users(n.conversation_history) =
                       IF handlers'[s].user_input = <<>> THEN <<>>
                       ELSE << handlers'[s].user_input >>
                /\ ~n.order_saved /\ n.order_id = 0
                /\ n.organization_id = 0 /\ n.start_time = 0
       /\ \A c \in CallIds :
            (/\ call_sessions[c] # 0
             /\ \E s \in Slots :
                   /\ handlers'[s] # handlers[s]
                   /\ c \notin {handlers[s].call_sid, handlers'[s].call_sid})
              => /\ call_sessions'[c] = call_sessions[c]
                 /\ heap'[call_sessions[c]] = heap[call_sessions[c]]]_vars

\* C21 witness: a turn handled for a CallSid whose earlier session an end
\* webhook had summarised and removed, while the other CallSid holds a
\* session with a turn in it.
C21_Witness ==
    /\ done.kind = "process" /\ done.reply = "assistant"
    /\ summary_mails[done.call_sid] = 1
    /\ call_sessions[done.call_sid] = done.session
    /\ Len(done.last_session.conversation_history) = 1
    /\ \E c \in CallIds \ {done.call_sid} :
          /\ call_sessions[c] # 0
          /\ heap[call_sessions[c]].conversation_history # <<>>

\* C22: while a turn coroutine of one call is inside the responder's call
\* to the language model, a coroutine in flight for another CallSid can
\* take its next step: no coroutine keeps the worker to itself for the
\* duration of the call.
C22_OtherCallsRunDuringResponder ==
    \A s \in Slots, t \in Slots :
        (/\ handlers[s].pc = "ps_llm"
         /\ handlers[t].kind # "idle"
         /\ handlers[t].call_sid # handlers[s].call_sid)
          => ENABLED (Next /\ handlers'[t] # handlers[t])

\* `session["conversation_history"][:-1]` (main.py:217): the history that
\* the coroutine in slot s hands to generate_response as the prior turns.
PriorHistory(s) ==
    LET history == heap[handlers[s].session].conversation_history
    IN  SubSeq(history, 1, Len(history) - 1)

\* C23: a turn coroutine about to call the responder finds its own
\* utterance in the last history entry, the one its reply is then written
\* to, and every prior turn it passes to the responder carries a reply.
C23_TurnsDoNotInterleave ==
    \A s \in Slots :
        handlers[s].pc = "ps_llm" =>
            LET history == heap[handlers[s].session].conversation_history
            IN  /\ Len(history) = handlers[s].turn_number
                /\ \A i \in 1..Len(PriorHistory(s)) :
                      PriorHistory(s)[i].assistant # ""

\* C24: the caller_phone of a session, once set, is not changed by any later
\* webhook of its call, whatever From number that webhook carries.
C24_CallerPhoneSetOnce ==
    [][\A c \in CallIds :
          (/\ call_sessions[c] # 0
           /\ call_sessions'[c] = call_sessions[c]
           /\ heap[call_sessions[c]].caller_phone # "")
            => heap'[call_sessions[c]].caller_phone = heap[call_sessions[c]].caller_phone]_vars

\* C25: a start webhook for a CallSid whose session already has a
\* start_time leaves that start_time as the first start recorded it, so
\* that the duration an end webhook computes runs from the first start.
C25_DuplicateStartKeepsStartTime ==
    [][\A c \in CallIds :
          (/\ call_sessions[c] # 0
           /\ call_sessions'[c] = call_sessions[c]
           /\ heap[call_sessions[c]].start_time # 0)
            => heap'[call_sessions[c]].start_time = heap[call_sessions[c]].start_time]_vars

\* C26: whichever way the end webhooks of a call overlap, none of them
\* fails, and the end-of-call extraction with its order mail runs once for
\* the session, not once per end webhook.
C26_ConcurrentEndsRunOnce ==
    done.kind = "hangup" =>
        /\ done.reply = "hangup"
        /\ done.last_audit.end_mails <= 1
        /\ done.last_audit.end_inserts <= 1

\* C27: once an end webhook is being handled for a CallSid that has a
\* session, the session is eventually removed from call_sessions, whether
\* the end-of-call work succeeds or fails.
C27_EndEventuallyRemoves ==
    \A c \in CallIds :
        (/\ call_sessions[c] # 0
         /\ \E s \in Slots : handlers[s].kind = "hangup" /\ handlers[s].call_sid = c)
          ~> (call_sessions[c] = 0)

\* C28: a turn on which the extractor failed and the keyword scan matched
\* no utterance, so that the items field holds the placeholder text, is
\* answered without failure, and no order is inserted, attempted or
\* notified on it.
C28_PlaceholderNotActionable ==
    (/\ done.kind = "process"
     /\ done.order_info = ExtractionFailedItems)
      => /\ done.reply # "error"
         /\ done.inserted = 0
         /\ done.save_failed = 0
         /\ done.notified = 0

\* The active businesses of an organization.
ActiveOf(organization_id) ==
    { b \in BusinessIds :
        /\ businesses[b].present
        /\ businesses[b].is_active
        /\ businesses[b].organization_id = organization_id }

\* C29: whatever activation requests have run, and however the statements
\* of concurrent ones interleave, an organization has at most one active
\* business.
C29_AtMostOneActive ==
    \A org \in Organizations : Cardinality(ActiveOf(org)) <= 1

\* C30: no step removes a row of the businesses table that is active when
\* the step is taken.
C30_ActiveNeverDeleted ==
    [][\A b \in BusinessIds :
          (businesses[b].present /\ businesses[b].is_active)
            => businesses'[b].present]_vars

====
